---- MODULE Spec2Model ----
(***************************************************************************)
(* Model of Walleye's board module (src/src/board.rs): the piece codec,    *)
(* the coordinate conversion between algebraic squares and (row, col)      *)
(* points, and the FEN decoder board_from_fen.                             *)
(*                                                                         *)
(* Text is a sequence of characters; a character is a one-element string,  *)
(* except the token "U+00E9", which stands for one character that takes    *)
(* two bytes in UTF-8 (str::len counts bytes, chars() counts characters).  *)
(* A function call is one action: it reads the argument chosen in Init and *)
(* stores what the function returns, or that it panicked, in ret.          *)
(***************************************************************************)
EXTENDS Integers, Sequences, FiniteSets

VARIABLES fn, arg, pc, ret

vars == <<fn, arg, pc, ret>>

(***************************************************************************)
(* Bounds of the model.                                                    *)
(***************************************************************************)
\* rank-groups of a generated placement that vary (the others are "8")
MaxVariedRows == 3
\* longest generated coordinate text
MaxPairLen == 2
\* largest row or column handed to board_position_to_algebraic_pair
MaxCoord == 11

(***************************************************************************)
(* Piece codec: constants                                                  *)
(***************************************************************************)
U8Max == 255

COLOR_MASK == 128
WHITE == 128
BLACK == 0

PIECE_MASK == 7
PAWN == 1
KNIGHT == 2
BISHOP == 3
ROOK == 4
QUEEN == 5
KING == 6

EMPTY == 0
SENTINEL == 255

BOARD_START == 2
BOARD_END == 10

\* [[u8; 12]; 12]
BOARD_SIZE == 12

BoardIndex == 0..(BOARD_SIZE - 1)

RECURSIVE BitAnd(_, _)
BitAnd(a, b) ==
    IF a = 0 \/ b = 0 THEN 0
    ELSE ((a % 2) * (b % 2)) + 2 * BitAnd(a \div 2, b \div 2)

RECURSIVE BitOr(_, _)
BitOr(a, b) ==
    IF a = 0 THEN b
    ELSE IF b = 0 THEN a
    ELSE (IF (a % 2) + (b % 2) > 0 THEN 1 ELSE 0) + 2 * BitOr(a \div 2, b \div 2)

None == [tag |-> "None"]
Some(v) == [tag |-> "Some", val |-> v]
Ok(v) == [tag |-> "Ok", val |-> v]
Err(m) == [tag |-> "Err", msg |-> m]
Panic(m) == [tag |-> "Panic", msg |-> m]

(***************************************************************************)
(* Piece codec: classification predicates                                  *)
(***************************************************************************)
is_empty(square) == square = EMPTY

is_outside_board(square) == square = SENTINEL

get_color(square) ==
    IF is_empty(square) \/ is_outside_board(square) THEN None
    ELSE IF BitAnd(square, COLOR_MASK) = WHITE THEN Some("White")
    ELSE Some("Black")

is_white(square) == ~is_empty(square) /\ BitAnd(square, COLOR_MASK) = WHITE

is_black(square) == ~is_empty(square) /\ BitAnd(square, COLOR_MASK) = BLACK

is_pawn(square) == BitAnd(square, PIECE_MASK) = PAWN

is_knight(square) == BitAnd(square, PIECE_MASK) = KNIGHT

is_bishop(square) == BitAnd(square, PIECE_MASK) = BISHOP

is_rook(square) == BitAnd(square, PIECE_MASK) = ROOK

is_queen(square) == BitAnd(square, PIECE_MASK) = QUEEN

is_king_queen(square) == BitAnd(square, PIECE_MASK) = QUEEN

is_king(square) == BitAnd(square, PIECE_MASK) = KING

\* every predicate of the codec applied to one square value
Classification(square) ==
    [get_color |-> get_color(square),
     is_white |-> is_white(square),
     is_black |-> is_black(square),
     is_pawn |-> is_pawn(square),
     is_knight |-> is_knight(square),
     is_bishop |-> is_bishop(square),
     is_rook |-> is_rook(square),
     is_queen |-> is_queen(square),
     is_king |-> is_king(square),
     is_empty |-> is_empty(square),
     is_outside_board |-> is_outside_board(square)]

(***************************************************************************)
(* Characters and text                                                     *)
(***************************************************************************)
DigitChars == {"0", "1", "2", "3", "4", "5", "6", "7", "8", "9"}

\* char::is_digit(10)
IsDigit(c) == c \in DigitChars

\* char::to_digit(10): None for a character that is not a decimal digit
ToDigit(c) ==
    CASE c = "0" -> Some(0) [] c = "1" -> Some(1) [] c = "2" -> Some(2)
      [] c = "3" -> Some(3) [] c = "4" -> Some(4) [] c = "5" -> Some(5)
      [] c = "6" -> Some(6) [] c = "7" -> Some(7) [] c = "8" -> Some(8)
      [] c = "9" -> Some(9) [] OTHER -> None

\* bytes of the UTF-8 encoding of one character
Utf8Len(c) == IF c = "U+00E9" THEN 2 ELSE 1

\* str::len: the length in bytes
RECURSIVE StrLen(_)
StrLen(s) == IF s = <<>> THEN 0 ELSE Utf8Len(Head(s)) + StrLen(Tail(s))

\* str::chars().nth(n), n counted from 0
CharsNth(s, n) == IF n + 1 <= Len(s) THEN Some(s[n + 1]) ELSE None

(***************************************************************************)
(* Coordinate conversion                                                   *)
(***************************************************************************)
algebraic_pairs_to_board_position_lowrow(pair) ==
    IF StrLen(pair) # 2 THEN None
    ELSE IF CharsNth(pair, 0) = None THEN Panic("unwrap on None")
    ELSE IF CharsNth(pair, 1) = None THEN Panic("unwrap on None")
    ELSE
        LET c == CharsNth(pair, 0).val
            r == CharsNth(pair, 1).val
            col == CASE c = "a" -> Some(0) [] c = "b" -> Some(1)
                     [] c = "c" -> Some(2) [] c = "d" -> Some(3)
                     [] c = "e" -> Some(4) [] c = "f" -> Some(5)
                     [] c = "g" -> Some(6) [] c = "h" -> Some(7)
                     [] OTHER -> None
        IN  IF col = None THEN None
            ELSE IF ToDigit(r) = None THEN Panic("unwrap on None")
            ELSE
                LET row == (BOARD_END - 1) - ToDigit(r).val
                IN  IF ~(row \in BOARD_START..(BOARD_END - 1)) THEN None
                    ELSE Some(<<row, col.val + BOARD_START>>)

algebraic_pairs_to_board_position(pair) ==
    IF StrLen(pair) # 2 THEN None
    ELSE IF CharsNth(pair, 0) = None THEN Panic("unwrap on None")
    ELSE IF CharsNth(pair, 1) = None THEN Panic("unwrap on None")
    ELSE
        LET c == CharsNth(pair, 0).val
            r == CharsNth(pair, 1).val
            col == CASE c = "a" -> Some(0) [] c = "b" -> Some(1)
                     [] c = "c" -> Some(2) [] c = "d" -> Some(3)
                     [] c = "e" -> Some(4) [] c = "f" -> Some(5)
                     [] c = "g" -> Some(6) [] c = "h" -> Some(7)
                     [] OTHER -> None
        IN  IF col = None THEN None
            ELSE IF ToDigit(r) = None THEN Panic("unwrap on None")
            ELSE
                LET row == BOARD_END - ToDigit(r).val
                IN  IF ~(row \in BOARD_START..(BOARD_END - 1)) THEN None
                    ELSE Some(<<row, col.val + BOARD_START>>)

board_position_to_algebraic_pair(pair) ==
    LET row == CASE pair[1] = 2 -> "8" [] pair[1] = 3 -> "7"
                 [] pair[1] = 4 -> "6" [] pair[1] = 5 -> "5"
                 [] pair[1] = 6 -> "4" [] pair[1] = 7 -> "3"
                 [] pair[1] = 8 -> "2" [] pair[1] = 9 -> "1"
                 [] OTHER -> "1"
        col == CASE pair[2] = 2 -> "a" [] pair[2] = 3 -> "b"
                 [] pair[2] = 4 -> "c" [] pair[2] = 5 -> "d"
                 [] pair[2] = 6 -> "e" [] pair[2] = 7 -> "f"
                 [] pair[2] = 8 -> "g" [] pair[2] = 9 -> "h"
                 [] OTHER -> "h"
    IN  <<col, row>>

(***************************************************************************)
(* FEN decode: helpers                                                     *)
(***************************************************************************)
\* engine::PIECE_VALUES, indexed by the kind bits of a piece
PIECE_VALUES == <<0, 100, 320, 330, 500, 900, 20000>>

\* PIECE_VALUES[i] with i counted from 0
PieceValue(i) == PIECE_VALUES[i + 1]

\* utils::trim_newline: drops one trailing line feed, then one trailing
\* carriage return
trim_newline(s) ==
    IF Len(s) > 0 /\ s[Len(s)] = "LF"
    THEN LET t == SubSeq(s, 1, Len(s) - 1)
         IN  IF Len(t) > 0 /\ t[Len(t)] = "CR"
             THEN SubSeq(t, 1, Len(t) - 1)
             ELSE t
    ELSE s

\* str::split(sep).collect(): k separators give k + 1 pieces
RECURSIVE Split(_, _)
Split(s, sep) ==
    IF \A i \in 1..Len(s) : s[i] # sep THEN <<s>>
    ELSE LET i == CHOOSE j \in 1..Len(s) :
                      /\ s[j] = sep
                      /\ \A k \in 1..(j - 1) : s[k] # sep
         IN  <<SubSeq(s, 1, i - 1)>> \o Split(SubSeq(s, i + 1, Len(s)), sep)

RECURSIVE DecimalValue(_)
DecimalValue(s) ==
    IF s = <<>> THEN 0
    ELSE 10 * DecimalValue(SubSeq(s, 1, Len(s) - 1)) + ToDigit(s[Len(s)]).val

\* str::parse::<u8>(): an optional '+', then one or more decimal digits, the
\* value at most 255
ParseU8(s) ==
    LET digits == IF Len(s) > 0 /\ s[1] = "+" THEN Tail(s) ELSE s
    IN  IF digits = <<>> THEN Err("ParseIntError")
        ELSE IF \E i \in 1..Len(digits) : ~IsDigit(digits[i])
        THEN Err("ParseIntError")
        ELSE IF DecimalValue(digits) > U8Max THEN Err("ParseIntError")
        ELSE Ok(DecimalValue(digits))

\* str::find(c) != None
Contains(s, c) == \E i \in 1..Len(s) : s[i] = c

get_piece_from_fen_string_char_nb(piece) ==
    CASE piece = "r" -> Some(BitOr(BLACK, ROOK))
      [] piece = "n" -> Some(BitOr(BLACK, BISHOP))
      [] piece = "b" -> Some(BitOr(BLACK, BISHOP))
      [] piece = "q" -> Some(BitOr(BLACK, QUEEN))
      [] piece = "k" -> Some(BitOr(BLACK, KING))
      [] piece = "p" -> Some(BitOr(BLACK, PAWN))
      [] piece = "R" -> Some(BitOr(WHITE, ROOK))
      [] piece = "N" -> Some(BitOr(WHITE, KNIGHT))
      [] piece = "B" -> Some(BitOr(WHITE, BISHOP))
      [] piece = "Q" -> Some(BitOr(WHITE, QUEEN))
      [] piece = "K" -> Some(BitOr(WHITE, KING))
      [] piece = "P" -> Some(BitOr(WHITE, PAWN))
      [] OTHER -> None

get_piece_from_fen_string_char(piece) ==
    CASE piece = "r" -> Some(BitOr(BLACK, ROOK))
      [] piece = "n" -> Some(BitOr(BLACK, KNIGHT))
      [] piece = "b" -> Some(BitOr(BLACK, BISHOP))
      [] piece = "q" -> Some(BitOr(BLACK, QUEEN))
      [] piece = "k" -> Some(BitOr(BLACK, KING))
      [] piece = "p" -> Some(BitOr(BLACK, PAWN))
      [] piece = "R" -> Some(BitOr(WHITE, ROOK))
      [] piece = "N" -> Some(BitOr(WHITE, KNIGHT))
      [] piece = "B" -> Some(BitOr(WHITE, BISHOP))
      [] piece = "Q" -> Some(BitOr(WHITE, QUEEN))
      [] piece = "K" -> Some(BitOr(WHITE, KING))
      [] piece = "P" -> Some(BitOr(WHITE, PAWN))
      [] OTHER -> None

(***************************************************************************)
(* FEN decode: the scan of the placement field.  A cursor is the mutable   *)
(* locals of board_from_fen: board, row, col, the two king locations and   *)
(* the two running piece values.                                           *)
(***************************************************************************)
\* let mut board = [[SENTINEL; 12]; 12] and the other locals
InitialCursor ==
    [board |-> [r \in BoardIndex |-> [c \in BoardIndex |-> SENTINEL]],
     row |-> BOARD_START,
     col |-> BOARD_START,
     white_king_location |-> <<0, 0>>,
     black_king_location |-> <<0, 0>>,
     white_piece_values |-> 0,
     black_piece_values |-> 0]

\* board[row][col] = value
SetSquare(cur, value) ==
    [cur EXCEPT !.board[cur.row][cur.col] = value]

\* the loop "for _ in 0..square_skip_count"
RECURSIVE SkipSquares(_, _)
SkipSquares(cur, n) ==
    IF n = 0 THEN cur
    ELSE LET written == SetSquare(cur, EMPTY)
         IN  SkipSquares([written EXCEPT !.col = cur.col + 1], n - 1)

\* "square_skip_count + col > BOARD_END"
SkipOutOfBounds(skip, col) == skip + col > BOARD_END

AccountPieceAllBlack(cur, piece) ==
    [cur EXCEPT
        !.black_piece_values = @ + PieceValue(BitAnd(piece, PIECE_MASK)),
        !.black_king_location =
            IF is_king(piece) THEN <<cur.row, cur.col>> ELSE @]

\* the running piece value and the king location after a piece was written
AccountPiece(cur, piece) ==
    IF is_white(piece)
    THEN [cur EXCEPT
            !.white_piece_values = @ + PieceValue(BitAnd(piece, PIECE_MASK)),
            !.white_king_location =
                IF is_king(piece) THEN <<cur.row, cur.col>> ELSE @]
    ELSE [cur EXCEPT
            !.black_piece_values = @ + PieceValue(BitAnd(piece, PIECE_MASK)),
            !.black_king_location =
                IF is_king(piece) THEN <<cur.row, cur.col>> ELSE @]

\* the else branch of the scan for a recognised piece; the caller has
\* checked that the indices are inside the array
PlacePiece(cur, piece) ==
    LET written == SetSquare(cur, piece)
        counted == AccountPiece(written, piece)
    IN  [counted EXCEPT !.col = cur.col + 1]

\* "for square in fen_row.chars()": the cursor after the row, or the early
\* return, or the panic of an index outside the array
RECURSIVE ScanSquares(_, _)
ScanSquares(cur, chars) ==
    IF chars = <<>> THEN Ok(cur)
    ELSE
        LET square == Head(chars)
        IN  IF IsDigit(square)
            THEN LET square_skip_count == ToDigit(square).val
                 IN  IF SkipOutOfBounds(square_skip_count, cur.col)
                     THEN Err("Could not parse fen string: Index out of bounds")
                     ELSE ScanSquares(SkipSquares(cur, square_skip_count),
                                      Tail(chars))
            ELSE LET piece == get_piece_from_fen_string_char(square)
                 IN  IF piece = None
                     THEN Err("Could not parse fen string: Invalid character found")
                     ELSE IF ~(cur.row \in BoardIndex /\ cur.col \in BoardIndex)
                     THEN Panic("index out of bounds")
                     ELSE ScanSquares(PlacePiece(cur, piece.val), Tail(chars))

RowCompleteAtLeast(col) == col >= BOARD_END

\* the negation of "col != BOARD_END"
RowComplete(col) == col = BOARD_END

\* "for fen_row in fen_rows"
RECURSIVE ScanRows(_, _)
ScanRows(cur, fen_rows) ==
    IF fen_rows = <<>> THEN Ok(cur)
    ELSE
        LET scanned == ScanSquares(cur, Head(fen_rows))
        IN  IF scanned.tag # "Ok" THEN scanned
            ELSE IF ~RowComplete(scanned.val.col)
            THEN Err("Could not parse fen string: Complete row was not specified")
            ELSE ScanRows([scanned.val EXCEPT !.row = @ + 1,
                                              !.col = BOARD_START],
                          Tail(fen_rows))

(***************************************************************************)
(* FEN decode                                                              *)
(***************************************************************************)
\* the en passant field: the target, or the early return, or the panic
\* inside algebraic_pairs_to_board_position
EnPassantPos(en_passant) ==
    IF StrLen(en_passant) # 2
    THEN IF en_passant # <<"-">>
         THEN Err("Could not parse fen string: En passant string not valid")
         ELSE Ok(None)
    ELSE LET pos == algebraic_pairs_to_board_position(en_passant)
         IN  IF pos.tag = "Panic" THEN pos ELSE Ok(pos)

\* Ok(BoardState { .. })
BoardState(cur, to_move, castling_privileges, en_passant_pos, half_move_clock, full_move_clock) ==
    [full_move_clock |-> full_move_clock,
     half_move_clock |-> half_move_clock,
     board |-> cur.board,
     to_move |-> to_move,
     white_king_location |-> cur.white_king_location,
     black_king_location |-> cur.black_king_location,
     pawn_double_move |-> en_passant_pos,
     white_king_side_castle |-> Contains(castling_privileges, "K"),
     white_queen_side_castle |-> Contains(castling_privileges, "Q"),
     black_king_side_castle |-> Contains(castling_privileges, "k"),
     black_queen_side_castle |-> Contains(castling_privileges, "q"),
     black_total_piece_value |-> cur.black_piece_values,
     white_total_piece_value |-> cur.white_piece_values,
     last_move |-> None]

board_from_fen(fen_arg) ==
    LET fen == trim_newline(fen_arg)
        fen_config == Split(fen, " ")
    IN  IF Len(fen_config) # 6
        THEN Err("Could not parse fen string: Invalid fen string")
        ELSE IF ~(fen_config[2] \in {<<"w">>, <<"b">>})
        THEN Err("Could not parse fen string: Next player to move was not provided")
        ELSE
        LET to_move == IF fen_config[2] = <<"w">> THEN "White" ELSE "Black"
            castling_privileges == fen_config[3]
            en_passant == fen_config[4]
            half_move_clock == ParseU8(fen_config[5])
            full_move_clock == ParseU8(fen_config[6])
            fen_rows == Split(fen_config[1], "/")
        IN  IF half_move_clock.tag = "Err"
            THEN Err("Could not parse fen string: Invalid half move value")
            ELSE IF full_move_clock.tag = "Err"
            THEN Err("Could not parse fen string: Invalid full move value")
            ELSE IF Len(fen_rows) # 8
            THEN Err("Could not parse fen string: Invalid number of rows provided, 8 expected")
            ELSE
            LET scanned == ScanRows(InitialCursor, fen_rows)
            IN  IF scanned.tag # "Ok" THEN scanned
                ELSE
                LET en_passant_pos == EnPassantPos(en_passant)
                IN  IF en_passant_pos.tag # "Ok" THEN en_passant_pos
                    ELSE Ok(BoardState(scanned.val, to_move,
                                       castling_privileges,
                                       en_passant_pos.val,
                                       half_move_clock.val,
                                       full_move_clock.val))

(***************************************************************************)
(* The arguments of the calls                                              *)
(***************************************************************************)
RECURSIVE Join(_, _)
Join(parts, sep) ==
    IF Len(parts) = 0 THEN <<>>
    ELSE IF Len(parts) = 1 THEN parts[1]
    ELSE parts[1] \o <<sep>> \o Join(Tail(parts), sep)

\* the rank-groups a generated placement is made of
RankGroups ==
    { <<"8">>,   \* "8"
      <<"k", "7">>,   \* "k7"
      <<"7", "K">>,   \* "7K"
      <<"4", "P", "3">>,   \* "4P3"
      <<"r", "n", "b", "q", "k", "b", "n", "r">>,   \* "rnbqkbnr"
      <<"p", "P", "R", "N", "B", "Q", "2">>,   \* "pPRNBQ2"
      <<"7">>,   \* "7"
      <<"9">>,   \* "9"
      <<"8", "p">>,   \* "8p"
      <<"8", "p", "p", "p">>,   \* "8ppp"
      <<"r", "n", "b", "q", "k", "b", "n", "H">>,   \* "rnbqkbnH"
      <<"0", "8">>,   \* "08"
      <<"p", "p", "p", "p", "p", "p", "p", "p", "p">> }   \* "ppppppppp"

\* the rank-groups of a generated placement that vary: the first ones and
\* the last one
VariedRows == (1..(MaxVariedRows - 1)) \cup {8}

GeneratedPlacements ==
    { Join([i \in 1..8 |-> IF i \in VariedRows THEN f[i] ELSE <<"8">>], "/") :
        f \in [VariedRows -> RankGroups] }

\* placement fields of the unit tests
TestPlacements ==
    { <<"r", "n", "b", "q", "k", "b", "n", "r", "/", "p", "p", "p", "p", "p", "p", "p", "p", "/", "8", "/", "8", "/", "8", "/", "8", "/", "P", "P", "P", "P", "P", "P", "P", "P", "/", "R", "N", "B", "Q", "K", "B", "N", "R">>,   \* "rnbqkbnr/pppppppp/8/8/8/8/PPPPPPPP/RNBQKBNR"
      <<"r", "n", "b", "q", "k", "b", "n", "r", "/", "p", "p", "p", "p", "p", "p", "p", "p", "/", "8", "/", "8", "/", "4", "P", "3", "/", "8", "/", "P", "P", "P", "P", "1", "P", "P", "P", "/", "R", "N", "B", "Q", "K", "B", "N", "R">>,   \* "rnbqkbnr/pppppppp/8/8/4P3/8/PPPP1PPP/RNBQKBNR"
      <<"6", "r", "k", "/", "1", "b", "4", "n", "p", "/", "5", "p", "p", "1", "/", "1", "p", "6", "/", "8", "/", "1", "P", "3", "N", "P", "1", "/", "1", "B", "3", "P", "1", "P", "/", "5", "R", "K", "1">> }   \* "6rk/1b4np/5pp1/1p6/8/1P3NP1/1B3P1P/5RK1"

SideFields ==
    { <<"w">>,   \* "w"
      <<"b">>,   \* "b"
      <<"x">> }   \* "x"

CastlingFields ==
    { <<"K", "Q", "k", "q">>,   \* "KQkq"
      <<"-">>,   \* "-"
      <<"K", "q">> }   \* "Kq"

EnPassantFields ==
    { <<"-">>,   \* "-"
      <<"e", "4">>,   \* "e4"
      <<"h", "5">>,   \* "h5"
      <<"a", "8">>,   \* "a8"
      <<"h", "1">>,   \* "h1"
      <<"z", "1">>,   \* "z1"
      <<"a", "9">>,   \* "a9"
      <<"a", "0">>,   \* "a0"
      <<"a", "b">>,   \* "ab"
      <<"a">>,   \* "a"
      <<"a", "1", "1">>,   \* "a11"
      <<"U+00E9">>,   \* "one two-byte character"
      <<>>,   \* ""
      <<"-", "-">> }   \* "--"

HalfMoveFields ==
    { <<"0">>,   \* "0"
      <<"+", "7">>,   \* "+7"
      <<"2", "5", "5">>,   \* "255"
      <<"2", "5", "6">>,   \* "256"
      <<"x">> }   \* "x"

FullMoveFields ==
    { <<"1">>,   \* "1"
      <<"-", "1">> }   \* "-1"

\* whole inputs: the strings of the unit tests, wrong field counts, line ends
LiteralFens ==
    { <<"r", "n", "b", "q", "k", "b", "n", "r", "/", "p", "p", "p", "p", "p", "p", "p", "p", "/", "8", "/", "8", "/", "8", "/", "8", "/", "P", "P", "P", "P", "P", "P", "P", "P", "/", "R", "N", "B", "Q", "K", "B", "N", "R", " ", "w", " ", "K", "Q", "k", "q", " ", "-", " ", "0", " ", "1">>,   \* "rnbqkbnr/pppppppp/8/8/8/8/PPPPPPPP/RNBQKBNR w KQkq - 0 1"
      <<"8", "/", "8", "/", "8", "/", "8", "/", "8", "/", "8", "/", "8", "/", "8", " ", "w", " ", "K", "Q", "k", "q", " ", "-", " ", "0", " ", "1">>,   \* "8/8/8/8/8/8/8/8 w KQkq - 0 1"
      <<"r", "n", "b", "q", "k", "b", "n", "r", "/", "p", "p", "p", "p", "p", "p", "p", "1", "/", "8", "/", "7", "p", "/", "8", "/", "8", "/", "P", "P", "P", "P", "P", "P", "P", "P", "/", "R", "N", "B", "Q", "K", "B", "N", "R", " ", "w", " ", "K", "Q", "k", "q", " ", "h", "5", " ", "0", " ", "1">>,   \* "rnbqkbnr/ppppppp1/8/7p/8/8/PPPPPPPP/RNBQKBNR w KQkq h5 0 1"
      <<"4", "R", "1", "B", "1", "/", "1", "k", "p", "5", "/", "1", "B", "1", "Q", "4", "/", "1", "P", "5", "p", "/", "1", "p", "2", "p", "1", "p", "K", "/", "8", "/", "3", "p", "P", "3", "/", "4", "N", "1", "b", "1", " ", "w", " ", "-", " ", "-", " ", "0", " ", "1">>,   \* "4R1B1/1kp5/1B1Q4/1P5p/1p2p1pK/8/3pP3/4N1b1 w - - 0 1"
      <<"t", "h", "i", "s", " ", "i", "s", "n", "'", "t", " ", "a", " ", "f", "e", "n", " ", "s", "t", "r", "i", "n", "g">>,   \* "this isn't a fen string"
      <<"r", "n", "b", "q", "k", "b", "n", "H", "/", "p", "p", "p", "p", "p", "p", "p", "p", "/", "8", "/", "8", "/", "8", "/", "8", "/", "P", "P", "P", "P", "P", "P", "P", "P", "/", "R", "N", "B", "Q", "K", "B", "N", "R", " ", "w", " ", "K", "Q", "k", "q", " ", "-", " ", "0", " ", "1">>,   \* "rnbqkbnH/pppppppp/8/8/8/8/PPPPPPPP/RNBQKBNR w KQkq - 0 1"
      <<"r", "n", "b", "q", "k", "b", "n", "r", "r", "r", "r", "r", "/", "p", "p", "p", "p", "p", "p", "p", "p", "/", "8", "/", "8", "/", "8", "/", "8", "/", "P", "P", "P", "P", "P", "P", "P", "P", "/", "R", "N", "B", "Q", "K", "B", "N", "R", " ", "w", " ", "K", "Q", "k", "q", " ", "-", " ", "0", " ", "1">>,   \* "rnbqkbnrrrrr/pppppppp/8/8/8/8/PPPPPPPP/RNBQKBNR w KQkq - 0 1"
      <<"8", "/", "8", "/", "8", "/", "8", "/", "8", "/", "8", "/", "8", " ", "w", " ", "K", "Q", "k", "q", " ", "-", " ", "0", " ", "1">>,   \* "8/8/8/8/8/8/8 w KQkq - 0 1"
      <<"8", "/", "8", "/", "8", "/", "8", "/", "8", "/", "8", "/", "8", "/", "8", "/", "8", " ", "w", " ", "K", "Q", "k", "q", " ", "-", " ", "0", " ", "1">>,   \* "8/8/8/8/8/8/8/8/8 w KQkq - 0 1"
      <<"8", "/", "8", "/", "8", "/", "8", "/", "8", "/", "8", "/", "8", "/", "8", " ", "w", " ", "K", "Q", "k", "q", " ", "-", " ", "0", " ", "1", " ">>,   \* "8/8/8/8/8/8/8/8 w KQkq - 0 1 "
      <<"8", "/", "8", "/", "8", "/", "8", "/", "8", "/", "8", "/", "8", "/", "8", " ", "w", " ", "K", "Q", "k", "q", " ", "-", " ", "0">>,   \* "8/8/8/8/8/8/8/8 w KQkq - 0"
      <<"8", "/", "8", "/", "8", "/", "8", "/", "8", "/", "8", "/", "8", "/", "8", " ", "w", " ", "K", "Q", "k", "q", " ", "-", " ", "0", " ", "1", "LF">>,   \* "8/8/8/8/8/8/8/8 w KQkq - 0 1\n"
      <<"8", "/", "8", "/", "8", "/", "8", "/", "8", "/", "8", "/", "8", "/", "8", " ", "w", " ", "K", "Q", "k", "q", " ", "-", " ", "0", " ", "1", "CR", "LF">>,   \* "8/8/8/8/8/8/8/8 w KQkq - 0 1\r\n"
      <<"8", "/", "8", "/", "8", "/", "8", "/", "8", "/", "8", "/", "8", "/", "8", " ", "w", " ", "K", "Q", "k", "q", " ", "-", " ", "0", " ", "1", "LF", "LF">>,   \* "8/8/8/8/8/8/8/8 w KQkq - 0 1\n\n"
      <<"P", "0", "P", "P", "P", "P", "P", "P", "P", "/", "8", "/", "8", "/", "8", "/", "8", "/", "8", "/", "8", "/", "8", " ", "w", " ", "K", "Q", "k", "q", " ", "-", " ", "0", " ", "1">>,   \* "P0PPPPPPP/8/8/8/8/8/8/8 w KQkq - 0 1"
      <<>> }   \* ""

\* "rnbqkbnr/pppppppp/8/8/8/8/PPPPPPPP/RNBQKBNR w KQkq - 0 1"
DEFAULT_FEN_STRING ==
    <<"r", "n", "b", "q", "k", "b", "n", "r", "/", "p", "p", "p", "p", "p",
      "p", "p", "p", "/", "8", "/", "8", "/", "8", "/", "8", "/", "P", "P",
      "P", "P", "P", "P", "P", "P", "/", "R", "N", "B", "Q", "K", "B", "N",
      "R", " ", "w", " ", "K", "Q", "k", "q", " ", "-", " ", "0", " ", "1">>

\* tests::empty_board: "8/8/8/8/8/8/8/8 w KQkq - 0 1"
EmptyBoardFen ==
    <<"8", "/", "8", "/", "8", "/", "8", "/", "8", "/", "8", "/", "8", "/",
      "8", " ", "w", " ", "K", "Q", "k", "q", " ", "-", " ", "0", " ", "1">>

\* tests::random_pos: "4R1B1/1kp5/1B1Q4/1P5p/1p2p1pK/8/3pP3/4N1b1 w - - 0 1"
RandomPosFen ==
    <<"4", "R", "1", "B", "1", "/", "1", "k", "p", "5", "/", "1", "B", "1",
      "Q", "4", "/", "1", "P", "5", "p", "/", "1", "p", "2", "p", "1", "p",
      "K", "/", "8", "/", "3", "p", "P", "3", "/", "4", "N", "1", "b", "1",
      " ", "w", " ", "-", " ", "-", " ", "0", " ", "1">>

\* the fields after the placement field of a generated placement
DefaultTail == <<" ", "w", " ", "K", "Q", "k", "q", " ", "-", " ", "0", " ", "1">>

FenInputs ==
    { p \o DefaultTail : p \in GeneratedPlacements }
    \cup { Join(<<p, s, c, e, h, f>>, " ") :
             p \in TestPlacements, s \in SideFields, c \in CastlingFields,
             e \in EnPassantFields, h \in HalfMoveFields, f \in FullMoveFields }
    \cup LiteralFens
    \cup {DEFAULT_FEN_STRING, EmptyBoardFen, RandomPosFen}

PairChars ==
    { "a", "b", "c", "d", "e", "f", "g", "h", "i", "z", "-", "U+00E9" }
    \cup DigitChars

\* every text of at most MaxPairLen characters, and "a11" of the unit tests
PairInputs ==
    (UNION { [1..n -> PairChars] : n \in 0..MaxPairLen }) \cup { <<"a", "1", "1">> }

PointInputs == (0..MaxCoord) \X (0..MaxCoord)

SquareInputs == 0..U8Max

(***************************************************************************)
(* The calls                                                               *)
(***************************************************************************)
Pending == [tag |-> "Pending"]

Init ==
    /\ pc = "call"
    /\ ret = Pending
    /\ \/ fn = "board_from_fen" /\ arg \in FenInputs
       \/ fn = "algebraic_pairs_to_board_position" /\ arg \in PairInputs
       \/ fn = "board_position_to_algebraic_pair" /\ arg \in PointInputs
       \/ fn = "classify" /\ arg \in SquareInputs

CallBoardFromFen ==
    /\ pc = "call"
    /\ fn = "board_from_fen"
    /\ ret' = board_from_fen(arg)
    /\ pc' = "done"
    /\ UNCHANGED <<fn, arg>>

CallAlgebraicPairsToBoardPosition ==
    /\ pc = "call"
    /\ fn = "algebraic_pairs_to_board_position"
    /\ ret' = algebraic_pairs_to_board_position(arg)
    /\ pc' = "done"
    /\ UNCHANGED <<fn, arg>>

CallBoardPositionToAlgebraicPair ==
    /\ pc = "call"
    /\ fn = "board_position_to_algebraic_pair"
    /\ ret' = [tag |-> "String", val |-> board_position_to_algebraic_pair(arg)]
    /\ pc' = "done"
    /\ UNCHANGED <<fn, arg>>

CallClassify ==
    /\ pc = "call"
    /\ fn = "classify"
    /\ ret' = [tag |-> "Class", val |-> Classification(arg)]
    /\ pc' = "done"
    /\ UNCHANGED <<fn, arg>>

Next ==
    \/ CallBoardFromFen
    \/ CallAlgebraicPairsToBoardPosition
    \/ CallBoardPositionToAlgebraicPair
    \/ CallClassify

Spec == Init /\ [][Next]_vars

TypeOK ==
    /\ pc \in {"call", "done"}
    /\ ret.tag \in {"Pending", "Ok", "Err", "Panic", "Some", "None", "String", "Class"}
    /\ (pc = "call") <=> (ret = Pending)

(***************************************************************************)
(* Vocabulary of the properties                                            *)
(***************************************************************************)
FenDone == pc = "done" /\ fn = "board_from_fen"

FenOk == FenDone /\ ret.tag = "Ok"

PlayingIndex == 2..9

\* the space-separated fields of an input
FieldsOf(fen) == Split(trim_newline(fen), " ")

\* the rank-groups of the placement field of an input
RankGroupsOf(fen) == Split(FieldsOf(fen)[1], "/")

FileLetters == {"a", "b", "c", "d", "e", "f", "g", "h"}

RankDigits == {"1", "2", "3", "4", "5", "6", "7", "8"}

\* a file letter 'a'..'h' followed by a rank digit '1'..'8'
WellFormedPair(t) == Len(t) = 2 /\ t[1] \in FileLetters /\ t[2] \in RankDigits

WhiteLetters == {"R", "N", "B", "Q", "K", "P"}

BlackLetters == {"r", "n", "b", "q", "k", "p"}

PieceLetters == WhiteLetters \cup BlackLetters

\* the value color|kind of every piece
EncodeValues == {color + kind : color \in {WHITE, BLACK}, kind \in PAWN..KING}

\* the squares a rank-group covers: a digit its value, any other character one
RECURSIVE GroupWidth(_)
GroupWidth(g) ==
    IF g = <<>> THEN 0
    ELSE (IF IsDigit(Head(g)) THEN ToDigit(Head(g)).val ELSE 1)
         + GroupWidth(Tail(g))

\* the cells of the playing area that hold the value v
CellsHolding(board, v) ==
    {p \in PlayingIndex \X PlayingIndex : board[p[1]][p[2]] = v}

\* p is before q, or is q, when the grid is read row by row
ReadBefore(p, q) == p[1] < q[1] \/ (p[1] = q[1] /\ p[2] <= q[2])

(***************************************************************************)
(* C1: for every input string board_from_fen returns Ok or Err and never   *)
(* aborts, and every malformed input (wrong field count, bad side token,   *)
(* bad clock token, wrong number of rank-groups, a rank-group too long or  *)
(* too short, an unrecognized placement character, invalid en-passant      *)
(* text) yields Err.                                                       *)
(***************************************************************************)
MalformedFen(fen) ==
    LET f == FieldsOf(fen)
    IN  \/ Len(f) # 6
        \/ /\ Len(f) = 6
           /\ \/ ~(f[2] \in {<<"w">>, <<"b">>})
              \/ ParseU8(f[5]).tag = "Err"
              \/ ParseU8(f[6]).tag = "Err"
              \/ Len(RankGroupsOf(fen)) # 8
              \/ \E i \in 1..Len(RankGroupsOf(fen)) :
                    \/ GroupWidth(RankGroupsOf(fen)[i]) # 8
                    \/ \E k \in 1..Len(RankGroupsOf(fen)[i]) :
                          ~(RankGroupsOf(fen)[i][k] \in PieceLetters \cup DigitChars)
              \/ (f[4] # <<"-">> /\ ~WellFormedPair(f[4]))

C1_FenNeverAborts ==
    FenDone =>
        /\ ret.tag \in {"Ok", "Err"}
        /\ (MalformedFen(arg) => ret.tag = "Err")

(***************************************************************************)
(* C2: when board_from_fen returns Ok(state), every cell of state.board    *)
(* with row or column outside 2..9 is SENTINEL, and no cell with row and   *)
(* column both in 2..9 is SENTINEL: it holds EMPTY or a value color|kind.  *)
(***************************************************************************)
C2_BorderInvariant ==
    FenOk =>
        \A r \in BoardIndex, c \in BoardIndex :
            IF r \in PlayingIndex /\ c \in PlayingIndex
            THEN /\ ret.val.board[r][c] # SENTINEL
                 /\ ret.val.board[r][c] \in {EMPTY} \cup EncodeValues
            ELSE ret.val.board[r][c] = SENTINEL

\* a decoded board with pieces in the last column and empty squares
C2_Witness ==
    /\ FenOk
    /\ \E r \in PlayingIndex : ret.val.board[r][9] \in EncodeValues
    /\ \E r \in PlayingIndex : ret.val.board[r][9] = EMPTY
    /\ ret.val.board[2][10] = SENTINEL

(***************************************************************************)
(* C3 as stated: when board_from_fen returns Ok(state), each color has     *)
(* exactly one king on the board and the cached location is its cell (a    *)
(* placement with zero or several kings of a color is rejected).           *)
(***************************************************************************)
C3_ExactlyOneKing ==
    FenOk =>
        /\ CellsHolding(ret.val.board, WHITE + KING) = {ret.val.white_king_location}
        /\ CellsHolding(ret.val.board, BLACK + KING) = {ret.val.black_king_location}

\* the cached location loc of the kings in cells: (0, 0) without a king, the
\* last king cell in reading order otherwise
KingCacheOf(cells, loc) ==
    IF cells = {} THEN loc = <<0, 0>>
    ELSE /\ loc \in cells
         /\ \A q \in cells : ReadBefore(q, loc)

(***************************************************************************)
(* C3 as amended: when board_from_fen returns Ok(state), the cached king   *)
(* location of a color is the unique cell holding that color's king if the *)
(* placement has exactly one; it is (0, 0) if the placement has none and   *)
(* the last king cell in reading order if it has several.  The king count  *)
(* rejects nothing: "8/8/8/8/8/8/8/8 w KQkq - 0 1" returns Ok.             *)
(***************************************************************************)
C3_KingLocation ==
    /\ FenOk =>
        /\ KingCacheOf(CellsHolding(ret.val.board, WHITE + KING),
                       ret.val.white_king_location)
        /\ KingCacheOf(CellsHolding(ret.val.board, BLACK + KING),
                       ret.val.black_king_location)
    /\ (FenDone /\ arg = EmptyBoardFen) => ret.tag = "Ok"

\* a decoded board with exactly one king of each color, each cached
C3_Witness ==
    /\ FenOk
    /\ Cardinality(CellsHolding(ret.val.board, WHITE + KING)) = 1
    /\ Cardinality(CellsHolding(ret.val.board, BLACK + KING)) = 1
    /\ ret.val.white_king_location \in CellsHolding(ret.val.board, WHITE + KING)
    /\ ret.val.black_king_location \in CellsHolding(ret.val.board, BLACK + KING)
    /\ \E p \in PlayingIndex \X PlayingIndex :
          ret.val.board[p[1]][p[2]] = WHITE + QUEEN

(***************************************************************************)
(* C4: when board_from_fen returns Ok(state), white_total_piece_value is   *)
(* the sum over the white pieces of the playing area of the standard value *)
(* of their kind (pawn 100, knight 320, bishop 330, rook 500, queen 900,   *)
(* king 20000) and black_total_piece_value the same sum over the black     *)
(* pieces; a side without pieces has sum 0.                                *)
(***************************************************************************)
StandardValue(kind) ==
    CASE kind = PAWN -> 100
      [] kind = KNIGHT -> 320
      [] kind = BISHOP -> 330
      [] kind = ROOK -> 500
      [] kind = QUEEN -> 900
      [] kind = KING -> 20000

\* the standard value of the pieces of one color on the cells
RECURSIVE MaterialOn(_, _, _)
MaterialOn(board, color, cells) ==
    IF cells = {} THEN 0
    ELSE LET p == CHOOSE q \in cells : TRUE
             v == board[p[1]][p[2]]
         IN  (IF v \in {color + kind : kind \in PAWN..KING}
              THEN StandardValue(v - color) ELSE 0)
             + MaterialOn(board, color, cells \ {p})

C4_MaterialSums ==
    FenOk =>
        /\ ret.val.white_total_piece_value =
               MaterialOn(ret.val.board, WHITE, PlayingIndex \X PlayingIndex)
        /\ ret.val.black_total_piece_value =
               MaterialOn(ret.val.board, BLACK, PlayingIndex \X PlayingIndex)

\* the standard opening position, with the sums of tests::starting_pos
C4_Witness ==
    /\ FenOk
    /\ arg = DEFAULT_FEN_STRING
    /\ ret.val.white_total_piece_value
           = 20000 + 900 + 2 * 500 + 2 * 330 + 2 * 320 + 8 * 100
    /\ ret.val.black_total_piece_value
           = 20000 + 900 + 2 * 500 + 2 * 330 + 2 * 320 + 8 * 100

(***************************************************************************)
(* C5: the two coordinate conversions are mutually inverse on the playing  *)
(* surface: a (row, col) with row and col in 2..9 converted to text and    *)
(* back gives Some((row, col)); a file letter 'a'..'h' followed by a rank  *)
(* digit '1'..'8' converted to a point and back gives the same text; rank  *)
(* 8 is row 2 and file a is column 2.                                      *)
(***************************************************************************)
C5_CoordinateInverse ==
    /\ (/\ pc = "done"
        /\ fn = "board_position_to_algebraic_pair"
        /\ arg[1] \in PlayingIndex
        /\ arg[2] \in PlayingIndex)
         => algebraic_pairs_to_board_position(ret.val) = Some(arg)
    /\ (/\ pc = "done"
        /\ fn = "algebraic_pairs_to_board_position"
        /\ WellFormedPair(arg))
         => /\ ret.tag = "Some"
            /\ board_position_to_algebraic_pair(ret.val) = arg
            /\ (arg[2] = "8" <=> ret.val[1] = 2)
            /\ (arg[1] = "a" <=> ret.val[2] = 2)

\* "a8" was converted to the top left cell of the playing surface
C5_Witness ==
    /\ pc = "done"
    /\ fn = "algebraic_pairs_to_board_position"
    /\ arg = <<"a", "8">>
    /\ ret = Some(<<2, 2>>)
    /\ board_position_to_algebraic_pair(ret.val) = arg

(***************************************************************************)
(* C6: for every input text algebraic_pairs_to_board_position returns a    *)
(* value and never aborts: Some((row, col)) with row and col in 2..9       *)
(* exactly when the text is a file letter 'a'..'h' followed by a rank      *)
(* digit '1'..'8', and None for every other text.                          *)
(***************************************************************************)
C6_PairNeverAborts ==
    (pc = "done" /\ fn = "algebraic_pairs_to_board_position") =>
        /\ ret.tag \in {"Some", "None"}
        /\ (ret.tag = "Some" <=> WellFormedPair(arg))
        /\ (ret.tag = "Some" =>
               ret.val[1] \in PlayingIndex /\ ret.val[2] \in PlayingIndex)

(***************************************************************************)
(* C7: board_from_fen returns Ok with pawn_double_move == None only when   *)
(* the en-passant field is exactly "-"; when the field is a valid          *)
(* algebraic square the result has pawn_double_move == Some(its (row,      *)
(* col)), inside rows/cols 2..9; every other en-passant field makes        *)
(* board_from_fen return Err.                                              *)
(***************************************************************************)
\* the (row, col) of a well-formed square name: rank 8 is row 2, file a is
\* column 2
PointOfSquare(t) ==
    LET files == <<"a", "b", "c", "d", "e", "f", "g", "h">>
        ranks == <<"8", "7", "6", "5", "4", "3", "2", "1">>
    IN  <<1 + (CHOOSE i \in 1..8 : ranks[i] = t[2]),
          1 + (CHOOSE i \in 1..8 : files[i] = t[1])>>

C7_EnPassantField ==
    (FenDone /\ Len(FieldsOf(arg)) = 6) =>
        LET en_passant == FieldsOf(arg)[4]
        IN  /\ (ret.tag = "Ok" /\ ret.val.pawn_double_move = None)
                  => en_passant = <<"-">>
            /\ (ret.tag = "Ok" /\ WellFormedPair(en_passant))
                  => /\ ret.val.pawn_double_move = Some(PointOfSquare(en_passant))
                     /\ PointOfSquare(en_passant) \in PlayingIndex \X PlayingIndex
            /\ (en_passant # <<"-">> /\ ~WellFormedPair(en_passant))
                  => ret.tag = "Err"

(***************************************************************************)
(* C8: the classification predicates report nothing for the two reserved   *)
(* values: for EMPTY (0x00) and SENTINEL (0xFF) is_white and is_black are  *)
(* false, get_color is None and every kind predicate is false; for every   *)
(* value color|kind exactly one kind predicate and exactly one of          *)
(* is_white / is_black is true.                                            *)
(***************************************************************************)
KindPredicates ==
    {"is_pawn", "is_knight", "is_bishop", "is_rook", "is_queen", "is_king"}

C8_ReservedValuesClassifyAsNothing ==
    (pc = "done" /\ fn = "classify") =>
        /\ arg \in {EMPTY, SENTINEL} =>
              /\ ~ret.val.is_white
              /\ ~ret.val.is_black
              /\ ret.val.get_color = None
              /\ \A k \in KindPredicates : ~ret.val[k]
        /\ arg \in EncodeValues =>
              /\ Cardinality({k \in KindPredicates : ret.val[k]}) = 1
              /\ ret.val.is_white # ret.val.is_black

(***************************************************************************)
(* C9: board_position_to_algebraic_pair is defined only on the playing     *)
(* surface: for a (row, col) with row or col outside 2..9 it fails         *)
(* explicitly and never returns the name of a real square.                 *)
(***************************************************************************)
C9_OutOfRangeFailsExplicitly ==
    (/\ pc = "done"
     /\ fn = "board_position_to_algebraic_pair"
     /\ ~(arg[1] \in PlayingIndex /\ arg[2] \in PlayingIndex))
        => /\ ret.tag # "String"
           /\ ~(ret.tag = "String" /\ WellFormedPair(ret.val))

(***************************************************************************)
(* C10: when board_from_fen returns Ok(state), the grid is the placement   *)
(* field read in order: the i-th rank-group (i = 0..7) fills row 2 + i     *)
(* from column 2, a digit n giving n EMPTY cells, an uppercase letter      *)
(* WHITE|kind and a lowercase letter BLACK|kind; "8/8/8/8/8/8/8/8" gives   *)
(* 64 EMPTY playing cells.                                                 *)
(***************************************************************************)
KindOfLetter(c) ==
    CASE c \in {"p", "P"} -> PAWN
      [] c \in {"n", "N"} -> KNIGHT
      [] c \in {"b", "B"} -> BISHOP
      [] c \in {"r", "R"} -> ROOK
      [] c \in {"q", "Q"} -> QUEEN
      [] c \in {"k", "K"} -> KING

\* the cells a rank-group describes, left to right
RECURSIVE CellsOfGroup(_)
CellsOfGroup(g) ==
    IF g = <<>> THEN <<>>
    ELSE (IF IsDigit(Head(g))
          THEN [k \in 1..ToDigit(Head(g)).val |-> EMPTY]
          ELSE <<(IF Head(g) \in WhiteLetters THEN WHITE ELSE BLACK)
                    + KindOfLetter(Head(g))>>)
         \o CellsOfGroup(Tail(g))

C10_GridIsPlacement ==
    /\ FenOk =>
          /\ Len(RankGroupsOf(arg)) = 8
          /\ \A i \in 0..7 :
                /\ Len(CellsOfGroup(RankGroupsOf(arg)[i + 1])) = 8
                /\ \A j \in 0..7 :
                      ret.val.board[2 + i][2 + j]
                          = CellsOfGroup(RankGroupsOf(arg)[i + 1])[j + 1]
    /\ (FenDone /\ arg = EmptyBoardFen) =>
          /\ ret.tag = "Ok"
          /\ \A r \in PlayingIndex, c \in PlayingIndex :
                ret.val.board[r][c] = EMPTY

\* the position of tests::random_pos with some of the cells it asserts
C10_Witness ==
    /\ FenOk
    /\ arg = RandomPosFen
    /\ ret.val.board[2][6] = WHITE + ROOK
    /\ ret.val.board[3][3] = BLACK + KING
    /\ ret.val.board[6][9] = WHITE + KING
    /\ ret.val.board[9][6] = WHITE + KNIGHT
    /\ ret.val.board[9][8] = BLACK + BISHOP
    /\ ret.val.board[7][2] = EMPTY

(***************************************************************************)
(* C11: in the placement field board_from_fen accepts as a skip count only *)
(* the digits 1 to 8: any other character, the digits '0' and '9'          *)
(* included, that is not one of the 12 piece letters makes it return Err,  *)
(* so a rank-group such as "08" or "P0PPPPPPP" is never accepted.          *)
(***************************************************************************)
\* the characters of the rank-groups that are neither a digit 1..8 nor a
\* piece letter
ForeignPlacementChars(fen) ==
    (UNION {{RankGroupsOf(fen)[i][k] : k \in 1..Len(RankGroupsOf(fen)[i])} :
                i \in 1..Len(RankGroupsOf(fen))})
    \ (RankDigits \cup PieceLetters)

C11_SkipCountIsOneToEight ==
    (FenDone /\ Len(FieldsOf(arg)) = 6 /\ ForeignPlacementChars(arg) # {})
        => ret.tag = "Err"

====
